---- MODULE Spec2Model ----
(***************************************************************************)
(* Model of the SuiteSparse download tools: download-suitesparse.py and    *)
(* suitesparsedl.py (download_file, download_stats, download_matrix,       *)
(* download_matrices, main) with suitesparse.py (parse_stats).             *)
(*                                                                         *)
(* Strings that the code builds by formatting or joining are sequences of  *)
(* atomic pieces, so that concatenation is \o.  CSV fields are atomic      *)
(* strings.                                                                *)
(***************************************************************************)
EXTENDS Integers, Sequences, FiniteSets, TLC

\* ------------------------------------------------------------------ bounds
MaxMatrices == 5      \* largest number of records in the upstream index
MaxJobs == 2          \* largest value of the -j / jobs argument
MaxConcurrent == 3    \* largest number of records when jobs > 1
MaxRuns == 2          \* number of consecutive runs on the same output root
MaxNum == 9           \* largest integer written in a numeric CSV field
MaxCalls == 2         \* download_file calls followed in one process

\* ------------------------------------------------------ strings and paths
\* os.path.join(a, b) for a relative b
PathJoin(a, b) ==
  IF Len(a) = 0 \/ a[Len(a)] = "/" THEN a \o b ELSE a \o <<"/">> \o b

\* ' '.join(words)
RECURSIVE JoinWords(_)
JoinWords(words) ==
  IF Len(words) = 0 THEN <<>>
  ELSE IF Len(words) = 1 THEN words[1]
  ELSE words[1] \o <<" ">> \o JoinWords(Tail(words))

\* main(): default_prefix and default_url
default_prefix == <<"suitesparse", "/">>
default_url == <<"https://sparse.tamu.edu", "/">>

\* urllib.parse.urljoin(suitesparse_url, 'files/ssstats.csv') for a base
\* URL whose path ends in "/"
UrlJoin(base, rel) ==
  IF Len(base) > 0 /\ base[Len(base)] = "/" THEN base \o rel
  ELSE base \o <<"/">> \o rel

\* ------------------------------------------------------- the index (CSV)
Numerals == {ToString(n) : n \in 0..MaxNum}

\* int(s) succeeds exactly on numerals
IsInt(s) == s \in Numerals
IntOf(s) == CHOOSE n \in 0..MaxNum : ToString(n) = s

GroupOf(i) == IF i % 2 = 1 THEN "HB" ELSE "Boeing"
NameOf(i) == "m" \o ToString(i)

\* one well-formed 13-field record of the upstream index
Row(i) ==
  << GroupOf(i), NameOf(i), "3", "3", "5",
     "1", "0", "0", IF i % 2 = 0 THEN "1" ELSE "0", "1", "", "kind",
     "5" >>

WellFormedIndex(n) ==
  << <<ToString(n)>>, <<"2024-01-01">> >> \o [i \in 1..n |-> Row(i)]

\* a record with 12 fields instead of 13
ShortRecordIndex ==
  WellFormedIndex(1) \o << SubSeq(Row(2), 1, 12) >>

\* a record whose rows field is not an integer
NonIntegerIndex ==
  WellFormedIndex(1) \o << [Row(2) EXCEPT ![3] = "x"] >>

\* fewer than 2 header lines
FewHeadersIndex == << <<"1">> >>

IndexFiles ==
  {WellFormedIndex(n) : n \in 0..MaxMatrices}
    \cup {ShortRecordIndex, NonIntegerIndex, FewHeadersIndex}

\* values that a 0/1 field of a record may hold
FlagValues == {"1", "0", "", "x"}

\* record i with its q-th flag field (fields 6..11) set to v
FlagRow(i, q, v) == [Row(i) EXCEPT ![5 + q] = v]

\* an index that declares `declared` matrices and has n records, the last
\* of them with its q-th flag set to v
FlagIndex(declared, n, q, v) ==
  << <<ToString(declared)>>, <<"2024-01-01">> >>
    \o [i \in 1..n |-> IF i = n THEN FlagRow(i, q, v) ELSE Row(i)]

ParseInputs ==
  {FlagIndex(d, n, q, v) :
     d \in 0..MaxNum, n \in 0..MaxMatrices, q \in 1..6, v \in FlagValues}
    \cup {ShortRecordIndex, NonIntegerIndex, FewHeadersIndex}

NoCollection == [num_matrices |-> 0, date |-> "", matrices |-> <<>>]

\* a Matrix whose ids start at 0
Matrix_zero(matrix_id, row) ==
  [matrix_id |-> matrix_id - 1, group |-> row[1], name |-> row[2],
   rows |-> IntOf(row[3]), columns |-> IntOf(row[4]),
   nonzeros |-> IntOf(row[5]),
   real |-> (row[6] = "1"), binary |-> (row[7] = "1"), nd |-> (row[8] = "1"),
   posdef |-> (row[9] = "1"), pattern_symmetry |-> (row[10] = "1"),
   numerical_symmetry |-> (row[11] = "1"), kind |-> row[12],
   pattern_entries |-> IntOf(row[13])]

\* a Matrix whose flags are true for every field other than "0"
Matrix_truthy(matrix_id, row) ==
  [matrix_id |-> matrix_id, group |-> row[1], name |-> row[2],
   rows |-> IntOf(row[3]), columns |-> IntOf(row[4]),
   nonzeros |-> IntOf(row[5]),
   real |-> (row[6] # "0"), binary |-> (row[7] # "0"), nd |-> (row[8] # "0"),
   posdef |-> (row[9] # "0"), pattern_symmetry |-> (row[10] # "0"),
   numerical_symmetry |-> (row[11] # "0"), kind |-> row[12],
   pattern_entries |-> IntOf(row[13])]

\* Matrix(...) as built in the loop of parse_stats
Matrix(matrix_id, row) ==
  [matrix_id |-> matrix_id, group |-> row[1], name |-> row[2],
   rows |-> IntOf(row[3]), columns |-> IntOf(row[4]),
   nonzeros |-> IntOf(row[5]),
   real |-> (row[6] = "1"), binary |-> (row[7] = "1"), nd |-> (row[8] = "1"),
   posdef |-> (row[9] = "1"), pattern_symmetry |-> (row[10] = "1"),
   numerical_symmetry |-> (row[11] = "1"), kind |-> row[12],
   pattern_entries |-> IntOf(row[13])]

\* the tuple unpacking and the int() calls of one loop iteration succeed
RowParses(row) ==
  /\ Len(row) = 13
  /\ \A f \in {3, 4, 5, 13} : IsInt(row[f])

\* the for loop of parse_stats: records i.. of the file, matrices so far
RECURSIVE ParseRows(_, _, _)
ParseRows(rows, i, matrices) ==
  IF i > Len(rows) THEN [ok |-> TRUE, matrices |-> matrices]
  ELSE IF ~RowParses(rows[i]) THEN [ok |-> FALSE, matrices |-> matrices]
  ELSE ParseRows(rows, i + 1,
                 Append(matrices, Matrix(Len(matrices) + 1, rows[i])))

\* parse_stats(path) on the rows that csv.reader yields
parse_stats(rows) ==
  IF Len(rows) < 1 \/ Len(rows[1]) = 0 \/ ~IsInt(rows[1][1])
    THEN [ok |-> FALSE, collection |-> NoCollection,
          error |-> IF Len(rows) < 1 THEN "StopIteration"
                    ELSE IF Len(rows[1]) = 0 THEN "IndexError"
                    ELSE "ValueError"]
  ELSE IF Len(rows) < 2 \/ Len(rows[2]) = 0
    THEN [ok |-> FALSE, collection |-> NoCollection,
          error |-> IF Len(rows) < 2 THEN "StopIteration" ELSE "IndexError"]
  ELSE LET r == ParseRows(rows, 3, <<>>) IN
    IF ~r.ok
      THEN [ok |-> FALSE, error |-> "ValueError", collection |-> NoCollection]
      ELSE [ok |-> TRUE, error |-> "",
            collection |-> [num_matrices |-> IntOf(rows[1][1]),
                            date |-> rows[2][1],
                            matrices |-> r.matrices]]

\* ---------------------------------------------------- the retrieval tool
\* exit statuses of wget: 0 success, 4 network failure, 8 server error
ExitCodes == {0, 4, 8}
\* what the subprocess may print on one stream
Outputs == {"", "text"}
\* one execution of the tool: its exit status, its two streams, and whether
\* a failed transfer left a (partial) file behind
ToolRuns ==
  {t \in [returncode : ExitCodes, stdout : Outputs, stderr : Outputs,
          partial : BOOLEAN] : t.returncode = 0 => ~t.partial}

\* wget writes its log to stderr and leaves stdout empty
WgetRuns == {t \in ToolRuns : t.stdout = ""}

W(s) == <<s>>

\* the progress options of download_file: the script tests the probe only;
\* the module version also repeats -q
ProgressFlags(impl_, has_show_progress) ==
  IF ~has_show_progress THEN <<>>
  ELSE IF impl_ = "script"
    THEN <<W("--show-progress"), W("--progress=bar:force:noscroll")>>
    ELSE <<W("-q"), W("--show-progress"), W("--progress=bar:force:noscroll")>>

\* a command whose passthrough arguments come before -P
Command_swapped(impl_, url, prefix_, verbose_, wget_args_, has_show_progress) ==
  <<W("wget"), W("-N")>>
    \o (IF verbose_ THEN <<>> ELSE <<W("-q")>>)
    \o ProgressFlags(impl_, has_show_progress)
    \o wget_args_
    \o <<W("-P"), prefix_>>
    \o <<url>>

\* command = ['wget', '-N'] + ... + [url] in download_file
Command(impl_, url, prefix_, verbose_, wget_args_, has_show_progress) ==
  <<W("wget"), W("-N")>>
    \o (IF verbose_ THEN <<>> ELSE <<W("-q")>>)
    \o ProgressFlags(impl_, has_show_progress)
    \o <<W("-P"), prefix_>>
    \o wget_args_
    \o <<url>>

\* the last path component of a URL
RECURSIVE Basename(_)
Basename(url) ==
  IF Len(url) = 0 THEN <<>>
  ELSE IF \E i \in 1..Len(url) : url[i] = "/"
    THEN Basename(SubSeq(url,
           (CHOOSE i \in 1..Len(url) : url[i] = "/") + 1, Len(url)))
  ELSE url

\* a tool that ignores the directory of -P below the output root
WgetTarget_root(prefix_, url) == PathJoin(default_prefix, Basename(url))

\* the file that "wget -P prefix url" writes
WgetTarget(prefix_, url) == PathJoin(prefix_, Basename(url))

NoError ==
  [type |-> "", returncode |-> 0, command |-> <<>>,
   stdout |-> "", stderr |-> ""]

\* a RuntimeError that leaves out the captured stdout
RuntimeError_nostdout(command_, run_) ==
  [type |-> "RuntimeError", returncode |-> run_.returncode,
   command |-> JoinWords(command_),
   stdout |-> "", stderr |-> run_.stderr]

\* the RuntimeError raised by download_file on a nonzero exit status
RuntimeError(command_, run_) ==
  [type |-> "RuntimeError", returncode |-> run_.returncode,
   command |-> JoinWords(command_),
   stdout |-> run_.stdout, stderr |-> run_.stderr]

\* an exception raised by parse_stats
ParseFailure(type_) ==
  [type |-> type_, returncode |-> 0, command |-> <<>>,
   stdout |-> "", stderr |-> ""]

\* download_stats: output_path and url
StatsPath(prefix_) == PathJoin(prefix_, <<"ssstats.csv">>)
StatsUrl(suitesparse_url_) ==
  UrlJoin(suitesparse_url_, <<"files", "/", "ssstats.csv">>)

\* an output_path directly below the output root
OutputPath_flat(prefix_, matrix) == PathJoin(prefix_, <<matrix.name, ".tar.gz">>)

\* download_matrix: output_path, url and the directory given to wget
OutputPath(prefix_, matrix) ==
  PathJoin(PathJoin(prefix_, <<matrix.group>>), <<matrix.name, ".tar.gz">>)
\* a url whose file name is the group's name
MatrixUrl_group(suitesparse_url_, matrix) == suitesparse_url_ \o <<"/MM/", matrix.group, "/", matrix.group, ".tar.gz">>

MatrixUrl(suitesparse_url_, matrix) ==
  suitesparse_url_ \o <<"/MM/", matrix.group, "/", matrix.name, ".tar.gz">>
MatrixDir(prefix_, matrix) == PathJoin(prefix_, <<matrix.group>>)

\* ------------------------------------------------- state of the program
VARIABLES
  run,            \* number of the current invocation of main()
  pc,             \* position of the main thread in download_matrices
  index,          \* rows of files/ssstats.csv as served upstream
  impl,           \* "script" (download-suitesparse.py) or "module"
  jobs,           \* the jobs argument (-j)
  verbose,        \* the verbose argument (-v)
  wget_args,      \* arguments passed through to wget
  wget_version,   \* <<major, minor>> printed by wget --version
  files,          \* regular files under the output root
  dirs,           \* directories that exist
  collection,     \* suitesparse_collection, once parsed
  pool,           \* the Pool object: none, started, terminated
  taskqueue,      \* chunks of pool.map not yet taken by a worker
  worker,         \* per pool thread: its chunk and position in it
  mapresult,      \* the MapResult of pool.map
  state,          \* per matrix: Planned, Skipped, Fetching, Fetched, Failed
  ncalls,         \* per matrix: download_file calls made in this run
  taken,          \* per matrix: times its chunk was taken by a worker
  statscalls,     \* download_file calls made for the index in this run
  result,         \* how download_matrices ended: returned or raised
  prevAllFetched, \* the previous run returned and fetched every matrix
  call,           \* download_file: its url and prefix arguments
  process,        \* download_file: the subprocess started by Popen
  fpc,            \* download_file: position of the caller
  stdout,         \* download_file: the local stdout
  stderr,         \* download_file: the local stderr
  sysout,         \* what the current call wrote to sys.stdout
  raised,         \* the exception raised by the current call
  popens,         \* Popen calls for a retrieval command in this process
  probes,         \* executions of wget --version in this process
  fcalls,         \* download_file calls begun in this process
  timeouts        \* TimeoutExpired exceptions caught in the current call

vars ==
  <<run, pc, index, impl, jobs, verbose, wget_args, wget_version,
    files, dirs, collection, pool, taskqueue, worker, mapresult, state,
    ncalls, taken, statscalls, result, prevAllFetched,
    call, process, fpc, stdout, stderr, sysout, raised, popens, probes,
    fcalls, timeouts>>

\* the variables of one followed download_file call
filevars ==
  <<call, process, fpc, stdout, stderr, sysout, raised, popens, probes,
    fcalls, timeouts>>

\* the variables of download_matrices, without the file system
runvars ==
  <<run, pc, index, jobs, collection, pool, taskqueue, worker, mapresult,
    state, ncalls, taken, statscalls, result, prevAllFetched>>

config == <<index, impl, jobs, verbose, wget_args, wget_version>>

prefix == default_prefix
WgetVersions == {<<1, 15>>, <<1, 16>>, <<1, 21>>, <<2, 0>>}

\* wget_has_show_progress: --show-progress exists since wget 1.16
wget_has_show_progress == wget_version[1] = 1 /\ wget_version[2] >= 16
suitesparse_url == default_url

Impls == {"script", "module"}
WgetArgs == {<<>>, <<W("--no-check-certificate")>>}

\* a pool that starts one thread more than asked for
Workers_extra == 1..(jobs + 1)

Workers == 1..jobs
NumMatrices == Len(collection.matrices)
JobIds == 1..NumMatrices

NoneStr == "None"
NoCall == [url |-> <<>>, prefix |-> <<>>]
NoProcess == [command |-> <<>>, status |-> "none", returncode |-> -1,
              out |-> "", err |-> ""]

IdleWorker == [task |-> 0, chunk |-> <<>>, pos |-> 0, busy |-> FALSE,
               call |-> NoCall, results |-> <<>>]
NoMapResult == [number_left |-> 0, success |-> TRUE, value |-> <<>>,
                error |-> NoError]
NoResult == [kind |-> "none", error |-> NoError]

\* Pool._map_async: chunksize for an iterable of n items and k workers
ChunkSize(n, k) ==
  IF n = 0 THEN 0
  ELSE (n \div (k * 4)) + (IF n % (k * 4) # 0 THEN 1 ELSE 0)

\* MapResult.__init__: number of chunks
NumChunks(n, k) ==
  IF ChunkSize(n, k) <= 0 THEN 0
  ELSE (n \div ChunkSize(n, k)) + (IF n % ChunkSize(n, k) # 0 THEN 1 ELSE 0)

Min(a, b) == IF a < b THEN a ELSE b

\* Pool._get_tasks: the batches of item numbers, in order
Chunks(n, k) ==
  [c \in 1..NumChunks(n, k) |->
     [i \in 1..Min(ChunkSize(n, k), n - (c - 1) * ChunkSize(n, k)) |->
        (c - 1) * ChunkSize(n, k) + i]]

\* what download_file does to the file system when the tool has run
WgetEffect(prefix_, url, toolrun) ==
  IF toolrun.returncode = 0 \/ toolrun.partial
    THEN [files |-> files \cup {WgetTarget(prefix_, url)},
          dirs |-> dirs \cup {prefix_}]
    ELSE [files |-> files, dirs |-> dirs]

\* a MapResult that drops the failure of a chunk
MapResultSet_lost(mr, chunk_, success, value, error) ==
  [mr EXCEPT !.number_left = @ - 1]

\* MapResult._set(i, (success, value)) for the chunk with item numbers chunk_
MapResultSet(mr, chunk_, success, value, error) ==
  IF success /\ mr.success
    THEN [mr EXCEPT !.number_left = @ - 1,
                    !.value = [j \in DOMAIN @ |->
                                 IF \E p \in DOMAIN chunk_ : chunk_[p] = j
                                   THEN value[CHOOSE p \in DOMAIN chunk_ :
                                                chunk_[p] = j]
                                   ELSE @[j]]]
    ELSE IF ~success /\ mr.success
      THEN [mr EXCEPT !.number_left = @ - 1, !.success = FALSE,
                      !.value = <<>>, !.error = error]
      ELSE [mr EXCEPT !.number_left = @ - 1]

Init ==
  /\ run = 1
  /\ pc = "start"
  /\ index \in IndexFiles
  /\ impl \in Impls
  /\ jobs \in 1..MaxJobs
  /\ jobs = 1 \/ Len(index) <= MaxConcurrent + 2
  /\ verbose = FALSE
  /\ wget_args = <<>>
  /\ wget_version = <<1, 21>>
  /\ files = {}
  /\ dirs = {}
  /\ collection = NoCollection
  /\ pool = "none"
  /\ taskqueue = <<>>
  /\ worker = [w \in Workers |-> IdleWorker]
  /\ mapresult = NoMapResult
  /\ state = <<>>
  /\ ncalls = <<>>
  /\ taken = <<>>
  /\ statscalls = 0
  /\ result = NoResult
  /\ prevAllFetched = FALSE
  /\ call = NoCall
  /\ process = NoProcess
  /\ fpc = "idle"
  /\ stdout = NoneStr
  /\ stderr = NoneStr
  /\ sysout = <<>>
  /\ raised = NoError
  /\ popens = 0
  /\ probes = 0
  /\ fcalls = 0
  /\ timeouts = 0

\* download_matrices up to the Popen of the index fetch: makedirs(prefix),
\* then download_stats calls download_file
StartRun ==
  /\ pc = "start"
  /\ pc' = "download_stats"
  /\ dirs' = IF prefix \in dirs \/ prefix \in files THEN dirs
             ELSE dirs \cup {prefix}
  /\ statscalls' = statscalls + 1
  /\ UNCHANGED filevars
  /\ UNCHANGED <<run, config, files, collection, pool, taskqueue, worker,
                 mapresult, state, ncalls, taken, result, prevAllFetched>>

\* the index fetch ends: download_file raises or download_stats returns
DownloadStatsDone ==
  /\ pc = "download_stats"
  /\ \E toolrun \in WgetRuns :
       LET eff == WgetEffect(prefix, StatsUrl(suitesparse_url), toolrun)
           command == Command(impl, StatsUrl(suitesparse_url), prefix,
                              verbose, wget_args, wget_has_show_progress)
       IN /\ files' = eff.files
          /\ dirs' = eff.dirs
          /\ IF toolrun.returncode # 0
               THEN /\ pc' = "raised"
                    /\ result' = [kind |-> "raised",
                                  error |-> RuntimeError(command, toolrun)]
               ELSE /\ pc' = "parse_stats"
                    /\ UNCHANGED result
  /\ UNCHANGED filevars
  /\ UNCHANGED <<run, config, collection, pool, taskqueue, worker, mapresult,
                 state, ncalls, taken, statscalls, prevAllFetched>>

\* a parse that keeps the records read before a malformed one
ParseStats_lenient ==
  /\ pc = "parse_stats"
  /\ collection' =
       IF Len(index) < 2 THEN NoCollection
       ELSE [num_matrices |-> 0, date |-> "",
             matrices |-> ParseRows(index, 3, <<>>).matrices]
  /\ pc' = "pool"
  /\ UNCHANGED filevars
  /\ UNCHANGED <<run, pool, config, files, dirs, taskqueue, worker,
                 mapresult, state, ncalls, taken, statscalls, result,
                 prevAllFetched>>

\* suitesparse_collection = parse_stats(ssstats_path)
ParseStats ==
  /\ pc = "parse_stats"
  /\ LET r == parse_stats(index) IN
       IF r.ok
         THEN /\ collection' = r.collection
              /\ pc' = "pool"
              /\ UNCHANGED result
         ELSE /\ pc' = "raised"
              /\ result' = [kind |-> "raised", error |-> ParseFailure(r.error)]
              /\ UNCHANGED collection
  /\ UNCHANGED filevars
  /\ UNCHANGED <<run, pool, config, files, dirs, taskqueue, worker, mapresult,
                 state, ncalls, taken, statscalls, prevAllFetched>>

\* with Pool(processes=jobs) as pool: pool.map(..., matrices) is submitted
PoolMap ==
  /\ pc = "pool"
  /\ pc' = "map"
  /\ taskqueue' = Chunks(NumMatrices, jobs)
  /\ mapresult' = [number_left |-> NumChunks(NumMatrices, jobs),
                   success |-> TRUE,
                   value |-> [j \in JobIds |-> <<>>],
                   error |-> NoError]
  /\ state' = [j \in JobIds |-> "Planned"]
  /\ ncalls' = [j \in JobIds |-> 0]
  /\ worker' = [w \in Workers |-> IdleWorker]
  /\ pool' = "started"
  /\ taken' = [j \in JobIds |-> 0]
  /\ UNCHANGED filevars
  /\ UNCHANGED <<run, config, files, dirs, collection, statscalls, result,
                 prevAllFetched>>

\* a task queue whose get() leaves the chunk in the queue
TakeTask_nopop(w) ==
  /\ pc = "map"
  /\ worker[w].task = 0
  /\ Len(taskqueue) > 0
  /\ mapresult.number_left > 0
  /\ worker' = [worker EXCEPT ![w] =
       [task |-> 1, chunk |-> Head(taskqueue), pos |-> 1, busy |-> FALSE,
        call |-> NoCall, results |-> <<>>]]
  /\ taskqueue' = taskqueue
  /\ taken' = [j \in DOMAIN taken |->
                 IF \E p \in DOMAIN Head(taskqueue) : Head(taskqueue)[p] = j
                   THEN Min(taken[j] + 1, 2) ELSE taken[j]]
  /\ UNCHANGED filevars
  /\ UNCHANGED <<run, pc, config, files, dirs, collection, pool, mapresult, state,
                 ncalls, statscalls, result, prevAllFetched>>

\* a task queue that hands out its newest chunk first
TakeTask_lifo(w) ==
  /\ pc = "map"
  /\ worker[w].task = 0
  /\ Len(taskqueue) > 0
  /\ worker' = [worker EXCEPT ![w] =
       [task |-> Len(taskqueue),
        chunk |-> taskqueue[Len(taskqueue)], pos |-> 1, busy |-> FALSE,
        call |-> NoCall, results |-> <<>>]]
  /\ taskqueue' = SubSeq(taskqueue, 1, Len(taskqueue) - 1)
  /\ taken' = [j \in DOMAIN taken |->
                 IF \E p \in DOMAIN taskqueue[Len(taskqueue)] :
                      taskqueue[Len(taskqueue)][p] = j
                   THEN taken[j] + 1 ELSE taken[j]]
  /\ UNCHANGED filevars
  /\ UNCHANGED <<run, pc, config, files, dirs, collection, pool, mapresult, state,
                 ncalls, statscalls, result, prevAllFetched>>

\* an idle pool thread takes the next chunk from the task queue
TakeTask(w) ==
  /\ pc = "map"
  /\ worker[w].task = 0
  /\ Len(taskqueue) > 0
  /\ worker' = [worker EXCEPT ![w] =
       [task |-> NumChunks(NumMatrices, jobs) - Len(taskqueue) + 1,
        chunk |-> Head(taskqueue), pos |-> 1, busy |-> FALSE,
        call |-> NoCall, results |-> <<>>]]
  /\ taskqueue' = Tail(taskqueue)
  /\ taken' = [j \in DOMAIN taken |->
                 IF \E p \in DOMAIN Head(taskqueue) : Head(taskqueue)[p] = j
                   THEN taken[j] + 1 ELSE taken[j]]
  /\ UNCHANGED filevars
  /\ UNCHANGED <<run, pc, config, files, dirs, collection, pool, mapresult, state,
                 ncalls, statscalls, result, prevAllFetched>>

\* the worker's state after download_matrix returned output_path for the
\* current item: next item of the chunk, or the chunk's result is set
AfterReturn(w, output_path) ==
  LET wk == worker[w]
      res == Append(wk.results, output_path)
  IN IF wk.pos < Len(wk.chunk)
       THEN /\ worker' = [worker EXCEPT ![w].pos = @ + 1, ![w].busy = FALSE,
                                        ![w].call = NoCall,
                                        ![w].results = res]
            /\ UNCHANGED mapresult
       ELSE /\ worker' = [worker EXCEPT ![w] = IdleWorker]
            /\ mapresult' = MapResultSet(mapresult, wk.chunk, TRUE, res,
                                         NoError)

\* a download_matrix without the os.path.isfile test
DownloadMatrix_nocheck(w) ==
  /\ pc = "map"
  /\ worker[w].task # 0
  /\ ~worker[w].busy
  /\ LET j == worker[w].chunk[worker[w].pos]
         matrix == collection.matrices[j]
     IN /\ state' = [state EXCEPT ![j] = "Fetching"]
        /\ ncalls' = [ncalls EXCEPT ![j] = @ + 1]
        /\ worker' = [worker EXCEPT ![w].busy = TRUE,
             ![w].call = [url |-> MatrixUrl(suitesparse_url, matrix),
                          prefix |-> MatrixDir(prefix, matrix)]]
  /\ UNCHANGED taken
  /\ UNCHANGED filevars
  /\ UNCHANGED <<run, pc, config, files, dirs, collection, pool, taskqueue,
                 mapresult, statscalls, result, prevAllFetched>>

\* a download_matrix that makes the group directory before the retrieval
DownloadMatrix_mkdir(w) ==
  /\ pc = "map"
  /\ worker[w].task # 0
  /\ ~worker[w].busy
  /\ LET j == worker[w].chunk[worker[w].pos]
         matrix == collection.matrices[j]
         output_path == OutputPath(prefix, matrix)
     IN IF output_path \in files
          THEN /\ state' = [state EXCEPT ![j] = "Skipped"]
               /\ AfterReturn(w, output_path)
               /\ UNCHANGED <<ncalls, dirs>>
          ELSE /\ state' = [state EXCEPT ![j] = "Fetching"]
               /\ ncalls' = [ncalls EXCEPT ![j] = @ + 1]
               /\ dirs' = dirs \cup {MatrixDir(prefix, matrix)}
               /\ worker' = [worker EXCEPT ![w].busy = TRUE,
                    ![w].call = [url |-> MatrixUrl(suitesparse_url, matrix),
                                 prefix |-> MatrixDir(prefix, matrix)]]
               /\ UNCHANGED mapresult
  /\ UNCHANGED taken
  /\ UNCHANGED filevars
  /\ UNCHANGED <<run, pc, config, files, collection, pool, taskqueue,
                 statscalls, result, prevAllFetched>>

\* download_matrix up to the return for an existing file, or up to the
\* Popen inside download_file
DownloadMatrix(w) ==
  /\ pc = "map"
  /\ worker[w].task # 0
  /\ ~worker[w].busy
  /\ LET j == worker[w].chunk[worker[w].pos]
         matrix == collection.matrices[j]
         output_path == OutputPath(prefix, matrix)
     IN IF output_path \in files
          THEN /\ state' = [state EXCEPT ![j] = "Skipped"]
               /\ AfterReturn(w, output_path)
               /\ UNCHANGED ncalls
          ELSE /\ state' = [state EXCEPT ![j] = "Fetching"]
               /\ ncalls' = [ncalls EXCEPT ![j] = @ + 1]
               /\ worker' = [worker EXCEPT ![w].busy = TRUE,
                    ![w].call = [url |-> MatrixUrl(suitesparse_url, matrix),
                                 prefix |-> MatrixDir(prefix, matrix)]]
               /\ UNCHANGED mapresult
  /\ UNCHANGED taken
  /\ UNCHANGED filevars
  /\ UNCHANGED <<run, pc, config, files, dirs, collection, pool, taskqueue,
                 statscalls, result, prevAllFetched>>

\* the retrieval of the worker's current matrix ends: download_file returns
\* and download_matrix returns output_path, or download_file raises and the
\* worker reports the chunk as failed
DownloadFileExit(w) ==
  /\ pc = "map"
  /\ worker[w].busy
  /\ \E toolrun \in WgetRuns :
       LET j == worker[w].chunk[worker[w].pos]
           matrix == collection.matrices[j]
           url == worker[w].call.url
           dir == worker[w].call.prefix
           eff == WgetEffect(dir, url, toolrun)
           command == Command(impl, url, dir, verbose, wget_args,
                              wget_has_show_progress)
       IN /\ files' = eff.files
          /\ dirs' = eff.dirs
          /\ IF toolrun.returncode = 0
               THEN /\ state' = [state EXCEPT ![j] = "Fetched"]
                    /\ AfterReturn(w, OutputPath(prefix, matrix))
               ELSE /\ state' = [state EXCEPT ![j] = "Failed"]
                    /\ worker' = [worker EXCEPT ![w] = IdleWorker]
                    /\ mapresult' =
                         MapResultSet(mapresult, worker[w].chunk, FALSE, <<>>,
                                      RuntimeError(command, toolrun))
  /\ UNCHANGED filevars
  /\ UNCHANGED <<run, pc, config, collection, pool, taskqueue, ncalls,
                 taken, statscalls, result, prevAllFetched>>

\* a pool.map that raises as soon as one chunk has failed
MapReturn_failfast ==
  /\ pc = "map"
  /\ mapresult.number_left = 0 \/ ~mapresult.success
  /\ pool' = "terminated"
  /\ IF mapresult.success
       THEN /\ pc' = "returned"
            /\ result' = [kind |-> "returned", error |-> NoError]
       ELSE /\ pc' = "raised"
            /\ result' = [kind |-> "raised", error |-> mapresult.error]
  /\ UNCHANGED filevars
  /\ UNCHANGED <<run, config, files, dirs, collection, taskqueue, worker,
                 mapresult, state, ncalls, taken, statscalls, prevAllFetched>>

\* pool.map returns or raises once every chunk has reported; the with block
\* ends and download_matrices returns to main
MapReturn ==
  /\ pc = "map"
  /\ mapresult.number_left = 0
  /\ IF mapresult.success
       THEN /\ pc' = "returned"
            /\ result' = [kind |-> "returned", error |-> NoError]
       ELSE /\ pc' = "raised"
            /\ result' = [kind |-> "raised", error |-> mapresult.error]
  /\ pool' = "terminated"
  /\ UNCHANGED filevars
  /\ UNCHANGED <<run, config, files, dirs, collection, taskqueue, worker,
                 mapresult, state, ncalls, taken, statscalls, prevAllFetched>>

\* the program is started again on the same output root
NextRun ==
  /\ pc \in {"returned", "raised"}
  /\ run < MaxRuns
  /\ run' = run + 1
  /\ pc' = "start"
  /\ prevAllFetched' = (pc = "returned" /\ NumMatrices >= 1
                        /\ \A j \in DOMAIN state : state[j] = "Fetched")
  /\ collection' = NoCollection
  /\ pool' = "none"
  /\ taskqueue' = <<>>
  /\ worker' = [w \in Workers |-> IdleWorker]
  /\ mapresult' = NoMapResult
  /\ state' = <<>>
  /\ ncalls' = <<>>
  /\ statscalls' = 0
  /\ result' = NoResult
  /\ taken' = <<>>
  /\ UNCHANGED filevars
  /\ UNCHANGED <<config, files, dirs>>

Next ==
  \/ StartRun
  \/ DownloadStatsDone
  \/ ParseStats
  \/ PoolMap
  \/ \E w \in Workers : TakeTask(w)
  \/ \E w \in Workers : DownloadMatrix(w)
  \/ \E w \in Workers : DownloadFileExit(w)
  \/ MapReturn
  \/ NextRun

Spec == Init /\ [][Next]_vars

\* ------------------------------------------- download_file, step by step
\* the calls made by download_stats and by download_matrix
FileCalls ==
  {[url |-> StatsUrl(suitesparse_url), prefix |-> prefix],
   [url |-> MatrixUrl(suitesparse_url, Matrix(1, Row(1))),
    prefix |-> MatrixDir(prefix, Matrix(1, Row(1)))]}

InitFile ==
  /\ run = 1
  /\ pc = "start"
  /\ index = WellFormedIndex(1)
  /\ impl \in Impls
  /\ jobs = 1
  /\ verbose \in BOOLEAN
  /\ wget_args \in WgetArgs
  /\ wget_version \in WgetVersions
  /\ files = {}
  /\ dirs = {prefix}
  /\ collection = NoCollection
  /\ pool = "none"
  /\ taskqueue = <<>>
  /\ worker = [w \in Workers |-> IdleWorker]
  /\ mapresult = NoMapResult
  /\ state = <<>>
  /\ ncalls = <<>>
  /\ taken = <<>>
  /\ statscalls = 0
  /\ result = NoResult
  /\ prevAllFetched = FALSE
  /\ call = NoCall
  /\ process = NoProcess
  /\ fpc = "idle"
  /\ stdout = NoneStr
  /\ stderr = NoneStr
  /\ sysout = <<>>
  /\ raised = NoError
  /\ popens = 0
  /\ probes = IF impl = "module" THEN 1 ELSE 0
  /\ fcalls = 0
  /\ timeouts = 0

\* download_file up to and including Popen: the command is built (the
\* script runs the version probe for it) and the subprocess is started
DownloadFile(c) ==
  /\ fpc \in {"idle", "returned", "raised"}
  /\ fcalls < MaxCalls
  /\ call' = c
  /\ fcalls' = fcalls + 1
  /\ probes' = IF impl = "script" THEN probes + 1 ELSE probes
  /\ process' = [command |-> Command(impl, c.url, c.prefix, verbose,
                                     wget_args, wget_has_show_progress),
                 status |-> "running", returncode |-> -1,
                 out |-> "", err |-> ""]
  /\ popens' = popens + 1
  /\ stdout' = NoneStr
  /\ stderr' = NoneStr
  /\ sysout' = <<>>
  /\ raised' = NoError
  /\ fpc' = "communicate"
  /\ timeouts' = 0
  /\ UNCHANGED runvars
  /\ UNCHANGED <<impl, verbose, wget_args, wget_version, files, dirs>>

\* the subprocess exits
ProcessExit ==
  /\ process.status = "running"
  /\ \E toolrun \in ToolRuns :
       LET eff == WgetEffect(call.prefix, call.url, toolrun) IN
         /\ process' = [process EXCEPT !.status = "exited",
                                       !.returncode = toolrun.returncode,
                                       !.out = toolrun.stdout,
                                       !.err = toolrun.stderr]
         /\ files' = eff.files
         /\ dirs' = eff.dirs
  /\ UNCHANGED runvars
  /\ UNCHANGED <<impl, verbose, wget_args, wget_version, call, fpc, stdout,
                 stderr, sysout, raised, popens, probes, fcalls,
                 timeouts>>

\* script only: communicate(timeout=1) raises TimeoutExpired while the
\* subprocess runs, and communicate() is called without a timeout
CommunicateTimeout ==
  /\ impl = "script"
  /\ fpc = "communicate"
  /\ process.status = "running"
  /\ fpc' = "communicate_again"
  /\ timeouts' = timeouts + 1
  /\ UNCHANGED runvars
  /\ UNCHANGED <<impl, verbose, wget_args, wget_version, files, dirs, call,
                 process, stdout, stderr, sysout, raised, popens, probes,
                 fcalls>>

\* a wait loop whose communicate() after a timeout never returns
CommunicateReturns_stuck ==
  /\ fpc = "communicate"
  /\ process.status = "exited"
  /\ stdout' = process.out
  /\ stderr' = process.err
  /\ IF process.returncode # 0
       THEN /\ fpc' = "raised"
            /\ raised' = RuntimeError(process.command,
                                      [returncode |-> process.returncode,
                                       stdout |-> process.out,
                                       stderr |-> process.err])
            /\ sysout' = IF impl = "script"
                           THEN sysout \o <<process.out, process.err>>
                           ELSE sysout
       ELSE /\ fpc' = "returned"
            /\ raised' = NoError
            /\ sysout' = sysout \o <<process.out, process.err>>
  /\ UNCHANGED runvars
  /\ UNCHANGED <<impl, verbose, wget_args, wget_version, files, dirs, call,
                 process, popens, probes, fcalls, timeouts>>

\* communicate returns after the subprocess has exited, and download_file
\* runs to its end: the script writes both streams and leaves the loop
\* since poll() is not None; the module version skips its loop and writes
\* the streams only after the test of the exit status
CommunicateReturns ==
  /\ fpc \in {"communicate", "communicate_again"}
  /\ process.status = "exited"
  /\ stdout' = process.out
  /\ stderr' = process.err
  /\ IF process.returncode # 0
       THEN /\ fpc' = "raised"
            /\ raised' = RuntimeError(process.command,
                                      [returncode |-> process.returncode,
                                       stdout |-> process.out,
                                       stderr |-> process.err])
            /\ sysout' = IF impl = "script"
                           THEN sysout \o <<process.out, process.err>>
                           ELSE sysout
       ELSE /\ fpc' = "returned"
            /\ raised' = NoError
            /\ sysout' = sysout \o <<process.out, process.err>>
  /\ UNCHANGED runvars
  /\ UNCHANGED <<impl, verbose, wget_args, wget_version, files, dirs, call,
                 process, popens, probes, fcalls, timeouts>>

NextFile ==
  \/ \E c \in FileCalls : DownloadFile(c)
  \/ ProcessExit
  \/ CommunicateTimeout
  \/ CommunicateReturns

SpecFile == InitFile /\ [][NextFile]_vars

\* communicate() is a blocking call of the thread that runs download_file:
\* once the subprocess has exited it returns
SpecFileLive == InitFile /\ [][NextFile]_vars /\ WF_vars(CommunicateReturns)

\* ------------------------------------------------- parse_stats on its own
InitParse ==
  /\ run = 1
  /\ pc = "parse_stats"
  /\ index \in ParseInputs
  /\ impl = "script"
  /\ jobs = 1
  /\ verbose = FALSE
  /\ wget_args = <<>>
  /\ wget_version = <<1, 21>>
  /\ files = {StatsPath(prefix)}
  /\ dirs = {prefix}
  /\ collection = NoCollection
  /\ pool = "none"
  /\ taskqueue = <<>>
  /\ worker = [w \in Workers |-> IdleWorker]
  /\ mapresult = NoMapResult
  /\ state = <<>>
  /\ ncalls = <<>>
  /\ taken = <<>>
  /\ statscalls = 1
  /\ result = NoResult
  /\ prevAllFetched = FALSE
  /\ call = NoCall
  /\ process = NoProcess
  /\ fpc = "idle"
  /\ stdout = NoneStr
  /\ stderr = NoneStr
  /\ sysout = <<>>
  /\ raised = NoError
  /\ popens = 0
  /\ probes = 0
  /\ fcalls = 0
  /\ timeouts = 0

NextParse == ParseStats

SpecParse == InitParse /\ [][NextParse]_vars

\* exit status of the process: an uncaught exception in main gives 1
ExitStatus == IF result.kind = "raised" THEN 1 ELSE 0

TypeOK ==
  /\ pc \in {"start", "download_stats", "parse_stats", "pool", "map",
             "returned", "raised"}
  /\ \A j \in DOMAIN state :
       state[j] \in {"Planned", "Skipped", "Fetching", "Fetched", "Failed"}

\* ------------------------------------------------------------ properties
Terminal == {"Skipped", "Fetched", "Failed"}

\* download_matrices has returned or raised
RunEnded == pc \in {"returned", "raised"}

\* download_matrices ended after pool.map, i.e. with a parsed catalog
RunEndedAfterMap == RunEnded /\ pool = "terminated"

FailedJobs == {j \in DOMAIN state : state[j] = "Failed"}

\* number of download_file calls whose subprocess is running
ActiveRetrievals ==
  Cardinality({w \in DOMAIN worker : worker[w].busy})

RECURSIVE SumCalls(_)
SumCalls(j) == IF j = 0 THEN 0 ELSE ncalls[j] + SumCalls(j - 1)

\* download_file calls for matrices made so far in this run
MatrixCalls == SumCalls(Len(ncalls))

\* C1 (as claimed): when a run that dispatched its jobs ends, every job of
\* the catalog is Skipped, Fetched or Failed, whichever retrievals failed.
C1_AllJobsAttempted ==
  RunEndedAfterMap => \A j \in DOMAIN state : state[j] \in Terminal

\* C2: at most `jobs` matrix retrievals are active at the same time.
C2_ConcurrencyBound == ActiveRetrievals <= jobs

C2_Witness == jobs = 2 /\ ActiveRetrievals = 2

\* C3: a job whose destination file exists when it runs becomes Skipped in
\* a step that calls download_file for no matrix and changes no file or
\* directory, and a Skipped job has no download_file call.
C3_IdempotentSkip ==
  [][\A j \in DOMAIN state :
       (/\ j \in DOMAIN state'
        /\ state[j] = "Planned"
        /\ state'[j] # "Planned"
        /\ OutputPath(prefix, collection.matrices[j]) \in files)
       => (/\ state'[j] = "Skipped"
           /\ ncalls' = ncalls
           /\ ncalls'[j] = 0
           /\ files' = files
           /\ dirs' = dirs)]_vars

C3_Witness ==
  \E j \in DOMAIN state :
    /\ state[j] = "Skipped"
    /\ OutputPath(prefix, collection.matrices[j]) \in files

\* C4 (as claimed): a run that follows a run in which every matrix was
\* fetched makes no download_file call at all.
C4_ZeroRetrievalCalls ==
  prevAllFetched => statscalls + MatrixCalls = 0

\* C4 (amended): a run that follows a run in which every matrix was fetched
\* makes no download_file call for a matrix; its only download_file call is
\* the one of download_stats for the index.
C4_RerunFetchesOnlyIndex ==
  prevAllFetched =>
    /\ MatrixCalls = 0
    /\ \A j \in DOMAIN state : state[j] \in {"Planned", "Skipped"}
    /\ statscalls = (IF pc = "start" THEN 0 ELSE 1)

C4_Witness ==
  /\ prevAllFetched
  /\ pc = "returned"
  /\ NumMatrices >= 2
  /\ \A j \in DOMAIN state : state[j] = "Skipped"

\* C5: a run that got a parsed catalog ends raising (exit status 1) exactly
\* when the retrieval of at least one job failed; otherwise it returns
\* (exit status 0), also when all jobs were skipped or the catalog is empty.
C5_AggregateStatus ==
  RunEndedAfterMap =>
    /\ (pc = "raised") <=> (FailedJobs # {})
    /\ (pc = "returned") <=> (\A j \in DOMAIN state :
                                 state[j] \in {"Fetched", "Skipped"})
    /\ ExitStatus = (IF FailedJobs # {} THEN 1 ELSE 0)

C5_Witness ==
  /\ RunEndedAfterMap
  /\ pc = "raised"
  /\ \E j \in DOMAIN state : state[j] = "Failed"
  /\ \E j \in DOMAIN state : state[j] = "Fetched"

\* the matrices whose failed command is carried by the outcome of the run
ReportedFailures ==
  IF result.kind # "raised" THEN {}
  ELSE {j \in DOMAIN state :
          result.error.command =
            JoinWords(Command(impl,
                              MatrixUrl(suitesparse_url,
                                        collection.matrices[j]),
                              MatrixDir(prefix, collection.matrices[j]),
                              verbose, wget_args, wget_has_show_progress))}

\* C6 (as claimed): when a run ends, its outcome names exactly the jobs
\* whose retrieval failed, one entry for each.
C6_OutcomeAccounting ==
  RunEndedAfterMap => ReportedFailures = FailedJobs

\* the index is malformed: fewer than 2 header lines, a record without 13
\* fields, or a numeric field that is no integer
Malformed(rows) ==
  \/ Len(rows) < 2
  \/ \E i \in 3..Len(rows) :
       \/ Len(rows[i]) # 13
       \/ \E f \in {3, 4, 5, 13} :
            f <= Len(rows[i]) /\ rows[i][f] \notin Numerals

\* a matrix job has been dispatched, or the pool exists
Dispatched ==
  \/ pool # "none"
  \/ Len(taskqueue) > 0
  \/ \E w \in DOMAIN worker : worker[w].task # 0
  \/ MatrixCalls > 0
  \/ \E j \in DOMAIN state : state[j] # "Planned"

\* C7: jobs are dispatched only after the index fetch of this run has
\* returned and the whole index has parsed; a run whose index fetch fails
\* or whose index is malformed raises with no job dispatched.
C7_NoDispatchBeforeCatalog ==
  /\ Dispatched =>
       /\ pc \in {"map", "returned", "raised"}
       /\ statscalls = 1
       /\ StatsPath(prefix) \in files
       /\ ~Malformed(index)
       /\ Len(collection.matrices) = Len(index) - 2
  /\ (Malformed(index) /\ pc \notin {"start", "download_stats", "parse_stats"})
       => (pc = "raised" /\ ExitStatus = 1 /\ ~Dispatched)
  /\ (pc = "raised" /\ pool = "none") => ~Dispatched

C7_Witness ==
  /\ pc = "raised"
  /\ Malformed(index)
  /\ result.error.type = "ValueError"
  /\ ~Dispatched

\* C8: when download_matrices returns or raises, no job is Fetching and no
\* retrieval is active.
C8_ReportAfterCompletion ==
  RunEnded =>
    /\ \A j \in DOMAIN state : state[j] # "Fetching"
    /\ ActiveRetrievals = 0
    /\ \A w \in DOMAIN worker : worker[w].task = 0

C8_Witness ==
  /\ pc = "raised"
  /\ jobs = 2
  /\ Cardinality(FailedJobs) = 1
  /\ Cardinality({j \in DOMAIN state : state[j] = "Fetched"}) = 2

\* C9: a download_file call starts the retrieval command once; it raises
\* exactly when the exit status is nonzero, the error then carries the exit
\* status, both captured streams and the command that was run; on exit
\* status 0 it returns.
C9_FetchFailureReporting ==
  /\ popens = fcalls
  /\ fpc \in {"returned", "raised"} =>
       /\ process.status = "exited"
       /\ (fpc = "raised") <=> (process.returncode # 0)
       /\ fpc = "returned" => raised = NoError
       /\ fpc = "raised" =>
            /\ raised.type = "RuntimeError"
            /\ raised.returncode = process.returncode
            /\ raised.stdout = process.out
            /\ raised.stderr = process.err
            /\ raised.command = JoinWords(process.command)

C9_Witness ==
  /\ fpc = "raised"
  /\ fcalls = 2
  /\ process.returncode = 8
  /\ process.out = "text"
  /\ raised.stdout = "text"

QuietFlag == IF verbose THEN <<>> ELSE <<W("-q")>>
ProgressBar == <<W("--show-progress"), W("--progress=bar:force:noscroll")>>

\* C10 (as claimed): the command is wget -N, -q iff not verbose, the
\* progress flags iff verbose and the tool supports them, -P with the
\* directory, the passthrough arguments, and the URL last.
C10_CommandAsClaimed ==
  process.status # "none" =>
    process.command =
      <<W("wget"), W("-N")>> \o QuietFlag
        \o (IF verbose /\ wget_has_show_progress THEN ProgressBar ELSE <<>>)
        \o <<W("-P"), call.prefix>> \o wget_args \o <<call.url>>

\* C10 (amended): the command is wget -N, -q iff not verbose, the progress
\* flags iff the tool supports them, whatever verbose is (suitesparsedl.py
\* puts one more -q in front of them), -P with the directory, the
\* passthrough arguments, and the URL last.
C10_Command ==
  process.status # "none" =>
    process.command =
      <<W("wget"), W("-N")>> \o QuietFlag
        \o (IF wget_has_show_progress
              THEN (IF impl = "module" THEN <<W("-q")>> ELSE <<>>)
                     \o ProgressBar
              ELSE <<>>)
        \o <<W("-P"), call.prefix>> \o wget_args \o <<call.url>>

C10_Witness ==
  /\ process.status = "exited"
  /\ ~verbose
  /\ wget_has_show_progress
  /\ Len(wget_args) = 1
  /\ Len(process.command) >= 8

\* the index has two header lines followed by 13-field records whose
\* numeric fields are integers
WellFormed(rows) ==
  /\ Len(rows) >= 2
  /\ Len(rows[1]) >= 1 /\ rows[1][1] \in Numerals
  /\ Len(rows[2]) >= 1
  /\ ~Malformed(rows)

\* C11: parse_stats of 2 header lines and N well-formed records returns N
\* matrices in file order, the i-th with matrix_id i, and num_matrices is
\* the integer of the header also when it is not N.
C11_Parsing ==
  (pc # "parse_stats" /\ WellFormed(index)) =>
    /\ pc # "raised"
    /\ Len(collection.matrices) = Len(index) - 2
    /\ \A i \in 1..Len(collection.matrices) :
         /\ collection.matrices[i].matrix_id = i
         /\ collection.matrices[i].group = index[i + 2][1]
         /\ collection.matrices[i].name = index[i + 2][2]
    /\ ToString(collection.num_matrices) = index[1][1]
    /\ collection.date = index[2][1]

C11_Witness ==
  /\ pc = "pool"
  /\ Len(collection.matrices) = 3
  /\ collection.num_matrices = 7
  /\ collection.matrices[3].matrix_id = 3

\* the decoded flags of a matrix, in the order of the fields 6..11
FlagsOf(m) ==
  <<m.real, m.binary, m.nd, m.posdef, m.pattern_symmetry,
    m.numerical_symmetry>>

\* C13: each of the six flags of a parsed matrix is true exactly when its
\* field is the string "1"; no other value makes parse_stats raise.
C13_BooleanDecoding ==
  (pc # "parse_stats" /\ WellFormed(index)) =>
    /\ pc # "raised"
    /\ \A i \in 1..Len(collection.matrices) : \A q \in 1..6 :
         FlagsOf(collection.matrices[i])[q] <=> (index[i + 2][5 + q] = "1")

C13_Witness ==
  /\ pc = "pool"
  /\ Len(collection.matrices) >= 1
  /\ index[3][10] = "x"
  /\ index[3][6] = "1"
  /\ collection.matrices[1].real
  /\ ~collection.matrices[1].pattern_symmetry

\* the paths and the URL of the j-th record of the index, written out for
\* the output root "suitesparse/" and the base "https://sparse.tamu.edu/"
ExpectedDir(j) == <<"suitesparse", "/", index[j + 2][1]>>
ExpectedPath(j) ==
  <<"suitesparse", "/", index[j + 2][1], "/", index[j + 2][2], ".tar.gz">>
ExpectedUrl(j) ==
  <<"https://sparse.tamu.edu", "/", "/MM/", index[j + 2][1], "/",
    index[j + 2][2], ".tar.gz">>

\* every retrieval in flight and every result handed back uses these paths
C12_Paths ==
  pc = "map" =>
    /\ \A w \in Workers : worker[w].busy =>
         /\ worker[w].call.url = ExpectedUrl(worker[w].chunk[worker[w].pos])
         /\ worker[w].call.prefix =
              ExpectedDir(worker[w].chunk[worker[w].pos])
    /\ \A w \in Workers : \A p \in DOMAIN worker[w].results :
         worker[w].results[p] = ExpectedPath(worker[w].chunk[p])
    /\ \A j \in DOMAIN mapresult.value :
         mapresult.value[j] # <<>> => mapresult.value[j] = ExpectedPath(j)

\* the existence check reads the destination path, and a successful
\* retrieval leaves the file there
C12_ExistenceCheck ==
  (pc = "map" /\ pc' = "map") =>
    \A j \in DOMAIN state :
      /\ (state[j] = "Planned" /\ state'[j] = "Skipped")
           => ExpectedPath(j) \in files
      /\ (state[j] = "Planned" /\ state'[j] = "Fetching")
           => ExpectedPath(j) \notin files
      /\ (state[j] = "Fetching" /\ state'[j] = "Fetched")
           => ExpectedPath(j) \in files'

\* C12: download_matrix checks and returns outputRoot/group/name.tar.gz
\* and fetches base + "/MM/" + group + "/" + name + ".tar.gz" into the
\* directory outputRoot/group.
C12_PathConstruction == []C12_Paths /\ [][C12_ExistenceCheck]_vars

C12_Witness ==
  /\ pc = "map"
  /\ 1 \in DOMAIN state /\ state[1] = "Fetched"
  /\ mapresult.value[1] = <<"suitesparse", "/", "HB", "/", "m1", ".tar.gz">>
  /\ \E w \in Workers :
       /\ worker[w].busy
       /\ worker[w].call.url =
            <<"https://sparse.tamu.edu", "/", "/MM/", "Boeing", "/", "m2",
              ".tar.gz">>
       /\ worker[w].call.prefix = <<"suitesparse", "/", "Boeing">>

\* the edges of the per-job state machine
JobTransitions ==
  {<<"Planned", "Skipped">>, <<"Planned", "Fetching">>,
   <<"Fetching", "Fetched">>, <<"Fetching", "Failed">>}

\* the workers whose current chunk holds job j
Holders(j) ==
  {w \in DOMAIN worker :
     \E p \in DOMAIN worker[w].chunk : worker[w].chunk[p] = j}

\* within a run a job moves along an edge only, moved by the worker that
\* holds it at its current position
C14_Step ==
  (run' = run /\ DOMAIN state # {}) =>
    \A j \in DOMAIN state :
      \/ state'[j] = state[j]
      \/ /\ <<state[j], state'[j]>> \in JobTransitions
         /\ \E w \in Holders(j) : worker[w].chunk[worker[w].pos] = j

\* a job is in one chunk, taken from the queue once, and retrieved once
C14_Once ==
  \A j \in DOMAIN state :
    /\ taken[j] <= 1
    /\ Cardinality(Holders(j)) <= 1
    /\ (state[j] # "Planned" \/ RunEndedAfterMap) => taken[j] = 1
    /\ ncalls[j] <= 1
    /\ ncalls[j] = 1 <=> state[j] \in {"Fetching", "Fetched", "Failed"}

\* C14: each job follows Planned -> Skipped or Planned -> Fetching ->
\* (Fetched | Failed), never leaves Skipped, Fetched or Failed, is taken
\* from the queue by exactly one worker, and the tool runs at most once for
\* its matrix in a run.
C14_JobStateMachine == [][C14_Step]_vars /\ []C14_Once

C14_Witness ==
  /\ RunEndedAfterMap
  /\ run = 2
  /\ Len(state) = 3
  /\ state[1] = "Skipped" /\ state[2] = "Failed" /\ state[3] = "Fetched"
  /\ \A j \in DOMAIN state : taken[j] = 1

SameChunk(i, j) ==
  (i - 1) \div ChunkSize(NumMatrices, jobs)
    = (j - 1) \div ChunkSize(NumMatrices, jobs)

\* chunks leave the task queue in catalog order, and a chunk is worked
\* through in catalog order
C15_Dispatch ==
  \A i, j \in DOMAIN state :
    i < j =>
      /\ taken[j] >= 1 => taken[i] >= 1
      /\ (SameChunk(i, j) /\ state[j] # "Planned") => state[i] \in Terminal

\* with one worker a job starts only when no earlier job is in progress and
\* no later job has started
C15_Sequential ==
  (jobs = 1 /\ run' = run /\ DOMAIN state # {}) =>
    \A j \in DOMAIN state :
      (state[j] = "Planned" /\ state'[j] # "Planned") =>
        /\ \A i \in DOMAIN state : i < j => state[i] # "Fetching"
        /\ \A i \in DOMAIN state : i > j => state[i] = "Planned"

C16_ProbeOnce == probes <= 1

\* download_file has returned or raised
FileCallEnded == fpc \in {"returned", "raised"}

\* C17 (as claimed): when download_file returns or raises, the captured
\* stdout and stderr of the subprocess have been written to sys.stdout.
C17_OutputDelivered ==
  FileCallEnded => sysout = <<process.out, process.err>>

\* C18: once the subprocess has exited, download_file returns or raises
\* with the final output and exit status, whether or not the 1-second
\* timeout of communicate expired before.
C18_FetchTermination ==
  (process.status = "exited" /\ fpc \in {"communicate", "communicate_again"})
    ~> /\ FileCallEnded
       /\ stdout = process.out /\ stderr = process.err
       /\ fpc = "raised" <=> process.returncode # 0

C18_Witness ==
  /\ FileCallEnded
  /\ timeouts >= 1
  /\ process.status = "exited"
  /\ stdout = process.out /\ stdout # ""
  /\ fpc = "raised" /\ raised.returncode = process.returncode

\* C19 (as claimed): a worker invokes the retrieval client only after the
\* group directory of its matrix exists.
C19_DirectoryBeforeFetch ==
  \A w \in DOMAIN worker :
    worker[w].busy => worker[w].call.prefix \in dirs

\* a worker's step from Planned leaves the directories alone; a group
\* directory appears only in the step in which a retrieval into it ends
C19_ToolMakesDirectory ==
  (pc = "map" /\ pc' = "map") =>
    /\ (\E j \in DOMAIN state : state[j] = "Planned" /\ state'[j] # "Planned")
         => dirs' = dirs
    /\ dirs' # dirs =>
         \E j \in DOMAIN state :
           /\ state[j] = "Fetching" /\ state'[j] \in {"Fetched", "Failed"}
           /\ dirs' = dirs \cup {ExpectedDir(j)}

\* after a successful retrieval the group directory and the file exist
C19_FetchedInGroupDirectory ==
  \A j \in DOMAIN state :
    state[j] = "Fetched" =>
      ExpectedDir(j) \in dirs /\ ExpectedPath(j) \in files

\* C19 (amended): the worker creates no directory; it passes
\* outputRoot/group to the retrieval tool, which creates it when it writes
\* the file.
C19_WorkerStepOrder ==
  [][C19_ToolMakesDirectory]_vars /\ []C19_FetchedInGroupDirectory

C19_Witness ==
  /\ pc = "map"
  /\ \E j \in DOMAIN state : state[j] = "Fetched" /\ ExpectedDir(j) \in dirs
  /\ \E w, v \in DOMAIN worker :
       /\ w # v /\ worker[w].busy /\ worker[v].busy
       /\ worker[w].call.prefix = worker[v].call.prefix
       /\ worker[w].call.prefix \notin dirs

\* the (group, name) pairs of the index are pairwise distinct
DistinctPairs ==
  \A i, j \in 3..Len(index) :
    (index[i][1] = index[j][1] /\ index[i][2] = index[j][2]) => i = j

\* the file that the retrieval of worker w writes
TargetOf(w) == WgetTarget(worker[w].call.prefix, worker[w].call.url)

\* no two retrievals in flight write the same file, and each writes the
\* destination path of its own job
C20_DistinctTargets ==
  (pc = "map" /\ DistinctPairs) =>
    \A w, v \in DOMAIN worker :
      (worker[w].busy /\ worker[v].busy /\ w # v) =>
        /\ TargetOf(w) # TargetOf(v)
        /\ TargetOf(w) = ExpectedPath(worker[w].chunk[worker[w].pos])

\* a step of one job leaves the existence of every other job's destination
\* path as it was
C20_ChecksIndependent ==
  (pc = "map" /\ pc' = "map" /\ DistinctPairs) =>
    \A j \in DOMAIN state :
      state'[j] # state[j] =>
        \A i \in DOMAIN state :
          i # j => (ExpectedPath(i) \in files' <=> ExpectedPath(i) \in files)

\* C20: with pairwise distinct (group, name) pairs no two active
\* retrievals target the same destination path, and no job's retrieval
\* changes the outcome of another job's existence check.
C20_NoSharedDestination ==
  []C20_DistinctTargets /\ [][C20_ChecksIndependent]_vars

C20_Witness ==
  /\ pc = "map"
  /\ DistinctPairs
  /\ \E w, v \in DOMAIN worker :
       /\ w # v /\ worker[w].busy /\ worker[v].busy
       /\ worker[w].call.prefix = worker[v].call.prefix
       /\ TargetOf(w) # TargetOf(v)
  /\ \E j \in DOMAIN state : state[j] = "Fetched" /\ ExpectedPath(j) \in files

====
